---- MODULE Spec2Model ----
(***************************************************************************)
(* Input-embedding layers of src/model/modules/input_layer.py:             *)
(* PositionalEncoding / ScaledPositionalEncoding (the cached sinusoidal    *)
(* table and its lazy extension), Conv2dSubsampling (shape arithmetic and  *)
(* mask reduction), LinearWithPosEmbedding(2) and Input_layer(2) (final    *)
(* masking).                                                               *)
(*                                                                         *)
(* Tensors are modelled with batch size 1.  A tensor of shape (1, T, W) is *)
(* a sequence of T rows, each a sequence of W numbers.  Numbers are        *)
(* fixed-point integers: the integer v stands for the real v / Scale, with *)
(* Scale = 2^24, the resolution of float32 values in [0.5, 1).  float32    *)
(* values are the integers; float16 values are those among them that have *)
(* a significand of 11 bits, and a cast to float16 rounds to the nearest   *)
(* of these, ties to even, as the tensor library does: it loses precision, *)
(* and a cast back to float32 does not restore it.  Products are formed in *)
(* two 12-bit limbs so that no intermediate value exceeds 31 bits.         *)
(***************************************************************************)
EXTENDS Integers, Sequences, FiniteSets, TLC

\* ------------------------------------------------------------------ bounds
\* Largest max_len a PositionalEncoding is constructed with directly (the
\* layers construct theirs with the default, DefaultMaxLen), and the longest
\* input given to extend_pe / the positional encoders / the linear path.
MaxLen == 3
\* Longest input time length given to the convolutional path.
MaxT == 20
\* Largest input feature width (idim / input_size) of a constructed layer.
MaxIdim == 12

\* ------------------------------------------------------- numeric model
\* Fixed-point unit (2^24): resolution of the float32 computation of the table.
Scale == 16777216
\* Bits of a float16 significand (10 stored and the implicit leading one).
Significand16 == 11
\* math.log(10000.0) = 9.21034..., in units of 1 / Scale.
Log10000 == 154523870
\* max_len=5000, the default capacity of a positional encoder's table.
DefaultMaxLen == 5000
\* Number of series terms summed by Exp, Sin and Cos.
NTerms == 14

\* The dtypes and devices an input may have: the default float32 and the
\* narrower float16; the default cpu and one accelerator.
Dtypes == {"float16", "float32"}
Devices == {"cpu", "cuda"}

\* The spacing of float16 values around the magnitude m: the least power of
\* two q (from q upward) with m < q * 2^Significand16.
RECURSIVE Spacing16(_, _)
Spacing16(m, q) == IF m < q * 2^Significand16 THEN q ELSE Spacing16(m, 2 * q)

\* The float16 value nearest to the magnitude m >= 0, ties to the even
\* significand.
Float16Abs(m) ==
    LET q == Spacing16(m, 1)
        lo == (m \div q) * q
        r == m - lo
    IN  IF 2 * r < q THEN lo
        ELSE IF 2 * r > q THEN lo + q
        ELSE IF (m \div q) % 2 = 0 THEN lo ELSE lo + q

\* The float16 value nearest to v (rounding is symmetric in the sign).
Float16(v) == IF v < 0 THEN -Float16Abs(-v) ELSE Float16Abs(v)

\* tensor.to(dtype): the value v as stored in the given dtype.
Cast(v, dtype) == IF dtype = "float16" THEN Float16(v) ELSE v

\* Quotient rounded to the nearest integer (b > 0).
RDiv(a, b) == (a + b \div 2) \div b

\* Half the bits of the fixed-point unit: Limb * Limb = Scale.
Limb == 2^12

\* floor((a * b + c) / Scale) for a, b >= 0 and 0 <= c < Scale, from the
\* limbs of a and b.
MulAdd(a, b, c) ==
    LET a1 == a \div Limb
        a0 == a % Limb
        b1 == b \div Limb
        b0 == b % Limb
    IN  a1 * b1 + (a1 * b0 + a0 * b1 + (a0 * b0 + c) \div Limb) \div Limb

\* Fixed-point product, rounded to the nearest unit.
Mul(a, b) ==
    LET m == MulAdd(IF a < 0 THEN -a ELSE a, IF b < 0 THEN -b ELSE b, Scale \div 2)
    IN  IF (a < 0) # (b < 0) THEN -m ELSE m

\* sum of the exponential series from its k-th term, term; the next term is
\* term * x / k.
RECURSIVE ExpSeries(_, _, _)
ExpSeries(x, term, k) ==
    IF k > NTerms \/ term = 0 THEN 0
    ELSE term + ExpSeries(x, RDiv(Mul(term, x), k), k + 1)

\* torch.exp on a fixed-point argument x <= 0: exp(x) = exp(x / 8)^8, the
\* series summed on the reduced argument.
Exp(x) ==
    LET y == ExpSeries(RDiv(x, 8), Scale, 1)
        y2 == Mul(y, y)
        y4 == Mul(y2, y2)
    IN  Mul(y4, y4)

\* Alternating series shared by Sin and Cos: the term after term is
\* -term * x^2 / ((k + 1) * (k + 2)).
RECURSIVE TrigSeries(_, _, _)
TrigSeries(x, term, k) ==
    IF k > 2 * NTerms \/ term = 0 THEN 0
    ELSE term + TrigSeries(x, -RDiv(Mul(Mul(term, x), x), (k + 1) * (k + 2)), k + 2)

\* torch.sin / torch.cos on a fixed-point argument (float32 result).
Sin(x) == TrigSeries(x, x, 1)
Cos(x) == TrigSeries(x, Scale, 0)

\* math.sqrt(n), fixed-point: the largest r in lo..hi with r * r <= n * Scale^2,
\* found by bisection.
RECURSIVE SqrtBetween(_, _, _)
SqrtBetween(n, lo, hi) ==
    IF lo >= hi THEN lo
    ELSE LET mid == (lo + hi + 1) \div 2
         IN  IF MulAdd(mid, mid, 0) < n * Scale
                \/ (MulAdd(mid, mid, 0) = n * Scale /\ MulAdd(mid, mid, Scale - 1) = n * Scale)
             THEN SqrtBetween(n, mid, hi)
             ELSE SqrtBetween(n, lo, mid - 1)
Sqrt(n) == SqrtBetween(n, 0, n * Scale)

\* ---------------------------------------------------------------- state
VARIABLES
    obj,   \* the constructed module: class, constructor arguments, xscale, alpha
    pe,    \* self.pe of the module's positional encoder (the cached table)
    prev,  \* self.pe as it was when the last call began
    call   \* the last call: its arguments and what it returned or raised
vars == <<obj, pe, prev, call>>

\* self.pe = None
\* A table is its capacity cap = pe.size(1) and its rows; the model keeps the
\* first Window rows, the only ones a slice taken in the model reads.
NonePe == [none |-> TRUE, cap |-> 0, rows |-> <<>>, dtype |-> "float32", device |-> "cpu"]

\* The longest slice a forward takes in the model: the longest input of a
\* positional encoder or of the linear path, or the longest output of the
\* two convolution stages.
Window ==
    LET t2 == ((MaxT - 3) \div 2 + 1 - 3) \div 2 + 1
    IN  IF MaxLen > t2 THEN MaxLen ELSE t2

\* self.pe of n positions with the given rows.
Table(n, rows, dtype, device) ==
    [none |-> FALSE, cap |-> n, rows |-> rows, dtype |-> dtype, device |-> device]

\* A (1, T, W) tensor all of whose elements are v.
Full(T, W, v, dtype, device) ==
    [rows |-> [t \in 1..T |-> [j \in 1..W |-> v]], dtype |-> dtype, device |-> device]

\* x.size(1)
Size1(x) == Len(x.rows)

\* div_term[i], i = 0 .. d_model/2 - 1:
\* exp(arange(0, d_model, 2)[i] * -(log(10000.0) / d_model))
div_term(i, d_model) == Exp(-(2 * i) * RDiv(Log10000, d_model))

\* Element (p, j) of the freshly computed float32 table: columns 0::2 hold
\* sin(position * div_term), columns 1::2 hold cos(position * div_term).
PeEntry(p, j, d_model) ==
    IF j % 2 = 0 THEN Sin(p * div_term(j \div 2, d_model))
    ELSE Cos(p * div_term((j - 1) \div 2, d_model))

\* The values a build computes for positions 0 .. Window - 1, by d_model
\* (row p + 1 of the sequence is position p, column j + 1 is feature j).
Sinusoids ==
    [d \in {2, 4} |-> [p \in 1..Window |-> [j \in 1..d |-> PeEntry(p - 1, j - 1, d)]]]

\* pe = torch.zeros(n, d_model); pe[:, 0::2] = sin; pe[:, 1::2] = cos
BuildTable(n, d_model) ==
    [p \in 1..(IF n < Window THEN n ELSE Window) |-> Sinusoids[d_model][p]]

\* tensor.to(dtype=..., device=...) applied to a table.
To(rows, dtype) == [p \in 1..Len(rows) |-> [j \in 1..Len(rows[p]) |-> Cast(rows[p][j], dtype)]]

\* extend_pe without the capacity check: every call rebuilds for x.size(1).
extend_pe_always_rebuild(cur, x, d_model) ==
    Table(Size1(x), To(BuildTable(Size1(x), d_model), x.dtype), x.dtype, x.device)

\* extend_pe that returns on a capacity hit without converting the table.
extend_pe_no_convert(cur, x, d_model) ==
    IF ~cur.none /\ cur.cap >= Size1(x) THEN cur
    ELSE Table(Size1(x), To(BuildTable(Size1(x), d_model), x.dtype), x.dtype, x.device)

\* PositionalEncoding.extend_pe: the value of self.pe after extend_pe(x).
extend_pe(cur, x, d_model) ==
    IF ~cur.none /\ cur.cap >= Size1(x)
    THEN IF cur.dtype # x.dtype \/ cur.device # x.device
         THEN Table(cur.cap, To(cur.rows, x.dtype), x.dtype, x.device)
         ELSE cur
    ELSE Table(Size1(x), To(BuildTable(Size1(x), d_model), x.dtype), x.dtype, x.device)

\* self.pe[:, :n]
SlicePe(cur, n) ==
    [p \in 1..(IF n < cur.cap THEN n ELSE cur.cap) |-> cur.rows[p]]

\* nn.Dropout with rate 0.0 (the default dropout_rate of the layers).
Dropout(rows) == rows

\* What a call returns or raises.  err = "" when the call returned.
Result(table, err, net, mask) == [pe |-> table, err |-> err, net |-> net, mask |-> mask]

\* An absent mask (None) and a present one.
NoneMask == [none |-> TRUE, bits |-> <<>>]
Mask(bits) == [none |-> FALSE, bits |-> bits]

\* x * a + c * table elementwise over the first Size1(x) positions; each
\* product and the sum are values of x's dtype.
\* Raises when the slice of the table is shorter than x or lives elsewhere.
Combine(x, a, table, c) ==
    IF table.none THEN Result(table, "TypeError", <<>>, NoneMask)
    ELSE IF Len(SlicePe(table, Size1(x))) # Size1(x) \/ table.device # x.device
    THEN Result(table, "RuntimeError", <<>>, NoneMask)
    ELSE Result(table, "",
           Dropout([t \in 1..Size1(x) |-> [j \in 1..Len(x.rows[t]) |->
               Cast(Cast(Mul(x.rows[t][j], a), x.dtype)
                    + Cast(Mul(c, SlicePe(table, Size1(x))[t][j]), x.dtype), x.dtype)]]),
           NoneMask)

\* PositionalEncoding.forward: x * self.xscale + self.pe[:, :x.size(1)]
PositionalEncoding_forward(cur, x, o) ==
    Combine(x, o.xscale, extend_pe(cur, x, o.d_model), Scale)

\* ScaledPositionalEncoding.forward: x + self.alpha * self.pe[:, :x.size(1)]
ScaledPositionalEncoding_forward(cur, x, o) ==
    Combine(x, Scale, extend_pe(cur, x, o.d_model), o.alpha)

\* ------------------------------------------------- Conv2dSubsampling
\* Output length of Conv2d(kernel 3, stride 2) along an axis of length n;
\* -1 when the kernel does not fit (the library raises).
ConvOut(n) == IF n < 3 THEN -1 ELSE (n - 3) \div 2 + 1

\* in_features taken as a quarter of the input width.
LinearIn_quarter(idim, odim) == odim * (idim \div 4)

\* in_features of the projection built by the constructor:
\* odim * (((idim - 1) // 2 - 1) // 2)
LinearIn(idim, odim) == odim * (((idim - 1) \div 2 - 1) \div 2)

\* m[::2]: every second element, the last two not dropped.
SliceStep2(m) == [k \in 1..((Len(m) + 1) \div 2) |-> m[2 * k - 1]]

\* m[:-2:2] on a sequence: every second element of m[0 : len - 2].
SliceDrop2Step2(m) ==
    [k \in 1..(IF Len(m) > 2 THEN (Len(m) - 1) \div 2 ELSE 0) |-> m[2 * k - 1]]

\* x_mask[:, :-2:2][:, :-2:2]
SubsampleMask(bits) == SliceDrop2Step2(SliceDrop2Step2(bits))

\* The dtype and device of a freshly constructed module's parameters.
ParamDtype == "float32"
ParamDevice == "cpu"

\* Conv2dSubsampling.forward on x of shape (1, T, F) in the given dtype and
\* device.  The learned maps (convolutions, projection) are library
\* primitives with free weights: v is the value their output takes.
Conv2dSubsampling_forward(cur, T, F, dtype, device, v, x_mask, o) ==
    LET t1 == ConvOut(T)
        f1 == ConvOut(F)
        t2 == ConvOut(t1)
        f2 == ConvOut(f1)
    IN  IF dtype # ParamDtype \/ device # ParamDevice
        THEN Result(cur, "RuntimeError", <<>>, NoneMask)
        ELSE IF t1 < 0 \/ f1 < 0 \/ t2 < 0 \/ f2 < 0
        THEN Result(cur, "RuntimeError", <<>>, NoneMask)
        ELSE IF o.d_model * f2 # o.in_features
        THEN Result(cur, "RuntimeError", <<>>, NoneMask)
        ELSE LET r == PositionalEncoding_forward(cur,
                          Full(t2, o.d_model, v, dtype, device), o)
             IN  IF r.err # "" \/ x_mask.none THEN r
                 ELSE Result(r.pe, "", r.net, Mask(SubsampleMask(x_mask.bits)))

\* ---------------------------------------------- LinearWithPosEmbedding
\* LinearWithPosEmbedding.forward: linear, scaled positional encoding, and
\* the mask passed through.
LinearWithPosEmbedding_forward(cur, T, F, dtype, device, v, mask, o) ==
    IF dtype # ParamDtype \/ device # ParamDevice \/ F # o.idim
    THEN Result(cur, "RuntimeError", <<>>, NoneMask)
    ELSE LET r == ScaledPositionalEncoding_forward(cur,
                      Full(T, o.d_model, v, dtype, device), o)
         IN  IF r.err # "" THEN r ELSE Result(r.pe, "", r.net, mask)

\* LinearWithPosEmbedding2.forward: linear, LayerNorm, Dropout, Gelu (all
\* library primitives), scaled positional encoding, mask passed through.
LinearWithPosEmbedding2_forward(cur, T, F, dtype, device, v, mask, o) ==
    IF dtype # ParamDtype \/ device # ParamDevice \/ F # o.idim
    THEN Result(cur, "RuntimeError", <<>>, NoneMask)
    ELSE LET r == ScaledPositionalEncoding_forward(cur,
                      Full(T, o.d_model, v, dtype, device), o)
         IN  IF r.err # "" THEN r ELSE Result(r.pe, "", r.net, mask)

\* ------------------------------------------------------- Input_layer
\* self.core(inputs, mask): the core selected at construction.
Core(cur, T, F, dtype, device, v, mask, o) ==
    IF o.layer_type = "linear"
    THEN IF o.cls = "Input_layer2"
         THEN LinearWithPosEmbedding2_forward(cur, T, F, dtype, device, v, mask, o)
         ELSE LinearWithPosEmbedding_forward(cur, T, F, dtype, device, v, mask, o)
    ELSE Conv2dSubsampling_forward(cur, T, F, dtype, device, v, mask, o)

\* masked_fill_ with the mask not inverted.
masked_fill_valid(net, bits) ==
    [t \in 1..Len(net) |-> [j \in 1..Len(net[t]) |-> IF bits[t] THEN 0 ELSE net[t][j]]]

\* net.masked_fill_(~mask.unsqueeze(-1), 0.0)
masked_fill(net, bits) ==
    [t \in 1..Len(net) |-> [j \in 1..Len(net[t]) |-> IF ~bits[t] THEN 0 ELSE net[t][j]]]

\* forward that takes an absent mask as "every position valid".
Input_layer_forward_none_ok(r) ==
    IF r.err # "" \/ r.mask.none THEN r
    ELSE Result(r.pe, "", masked_fill(r.net, r.mask.bits), r.mask)

\* Input_layer.forward / Input_layer2.forward given what the core returned.
\* mask.unsqueeze(-1) raises on None; a (1, t', 1) mask fills a (1, t, d)
\* tensor only when t' = t (or t' = 1, which broadcasts).
Input_layer_forward(r) ==
    IF r.err # "" THEN r
    ELSE IF r.mask.none THEN Result(r.pe, "AttributeError", <<>>, NoneMask)
    ELSE IF Len(r.mask.bits) # Len(r.net) /\ Len(r.mask.bits) # 1
    THEN Result(r.pe, "RuntimeError", <<>>, NoneMask)
    ELSE Result(r.pe, "",
           masked_fill(r.net, [t \in 1..Len(r.net) |->
               IF Len(r.mask.bits) = Len(r.net) THEN r.mask.bits[t] ELSE r.mask.bits[1]]),
           r.mask)

\* ------------------------------------------------------ construction
DModels == DOMAIN Sinusoids
PeClasses == {"PositionalEncoding", "ScaledPositionalEncoding"}
LayerClasses == {"Input_layer", "Input_layer2"}
LayerTypes == {"linear", "conv"}

\* The module as its constructor leaves it: xscale = sqrt(d_model),
\* alpha = 1.0, and for the convolutional path the projection's in_features.
Module(cls, layer_type, idim, d_model) ==
    [cls |-> cls, layer_type |-> layer_type, idim |-> idim, d_model |-> d_model,
     xscale |-> Sqrt(d_model), alpha |-> Scale,
     in_features |-> IF layer_type = "conv" THEN LinearIn(idim, d_model) ELSE idim]

\* Whether the constructor returns.  nn.Linear needs in_features >= 0, and
\* LinearWithPosEmbedding2.__init__ reads self.linear.weight of an
\* nn.Sequential, which raises AttributeError: Input_layer2 cannot be
\* constructed with layer_type 'linear'.
Constructible(cls, layer_type, idim, d_model) ==
    /\ layer_type = "conv" => LinearIn(idim, d_model) >= 0
    /\ ~(cls = "Input_layer2" /\ layer_type = "linear")

\* PositionalEncoding.__init__: self.pe = None, then
\* extend_pe(torch.tensor(0.0).expand(1, max_len)).
InitialPe(max_len, d_model) ==
    extend_pe(NonePe, Full(max_len, 0, 0, "float32", "cpu"), d_model)

NoCall ==
    [op |-> "__init__", len |-> 0, dtype |-> "float32", device |-> "cpu",
     maskNone |-> TRUE, err |-> "", core |-> <<>>, net |-> <<>>, mask |-> NoneMask]

Init ==
    /\ \/ \E cls \in PeClasses, d \in DModels, max_len \in 0..MaxLen :
            /\ obj = Module(cls, "", 0, d)
            /\ pe = InitialPe(max_len, d)
       \/ \E idim \in 0..MaxIdim, d \in DModels :
            /\ Constructible("Conv2dSubsampling", "conv", idim, d)
            /\ obj = Module("Conv2dSubsampling", "conv", idim, d)
            /\ pe = InitialPe(DefaultMaxLen, d)
       \/ \E cls \in LayerClasses, lt \in LayerTypes, idim \in {MaxIdim}, d \in DModels :
            /\ Constructible(cls, lt, idim, d)
            /\ obj = Module(cls, lt, idim, d)
            /\ pe = InitialPe(DefaultMaxLen, d)
    /\ prev = NonePe
    /\ call = NoCall

\* ----------------------------------------------------------- inputs
\* Values a learned map's output takes.
Vals == {0, Scale}

\* Masks given for an input of T time steps: None, or a boolean sequence of
\* length T (every one for short inputs; for longer inputs all true, all
\* false, true on the first half, true on the second half).
PadMasks(T) ==
    {[i \in 1..T |-> i <= n] : n \in {0, T \div 2, T}} \cup {[i \in 1..T |-> i > T \div 2]}
MaskInputs(T) ==
    {NoneMask} \cup {Mask(b) : b \in IF T <= MaxLen THEN [1..T -> BOOLEAN] ELSE PadMasks(T)}

\* Inputs given to a module that has parameters: (1, T, idim) tensors of up
\* to maxT time steps in the parameters' dtype and device with every mask of
\* MaskInputs(T), and one input in each other dtype / device.
LayerInputs(maxT) ==
    UNION {{[T |-> T, dtype |-> ParamDtype, device |-> ParamDevice, v |-> Scale, mask |-> m] :
               m \in MaskInputs(T)} : T \in 0..maxT}
    \cup {[T |-> maxT, dtype |-> k[1], device |-> k[2], v |-> Scale, mask |-> NoneMask] :
               k \in (Dtypes \X Devices) \ {<<ParamDtype, ParamDevice>>}}

\* The record of a call.
Called(op, T, dtype, device, mask, core, r) ==
    [op |-> op, len |-> T, dtype |-> dtype, device |-> device,
     maskNone |-> mask.none, err |-> r.err, core |-> core, net |-> r.net,
     mask |-> r.mask]

\* ---------------------------------------------------------- actions
\* pos.extend_pe(x) on a positional encoder.
ExtendPe ==
    /\ obj.cls \in PeClasses
    /\ \E T \in 0..MaxLen, dtype \in Dtypes, device \in Devices :
         LET x == Full(T, obj.d_model, 0, dtype, device)
             new == extend_pe(pe, x, obj.d_model)
         IN  /\ pe' = new
             /\ prev' = pe
             /\ call' = Called("extend_pe", T, dtype, device, NoneMask, <<>>,
                               Result(new, "", <<>>, NoneMask))
    /\ UNCHANGED obj

\* PositionalEncoding.forward(x)
PEForward ==
    /\ obj.cls = "PositionalEncoding"
    /\ \E T \in 0..MaxLen, dtype \in Dtypes, device \in Devices, v \in Vals :
         LET r == PositionalEncoding_forward(pe, Full(T, obj.d_model, v, dtype, device), obj)
         IN  /\ pe' = r.pe
             /\ prev' = pe
             /\ call' = Called("forward", T, dtype, device, NoneMask, <<>>, r)
    /\ UNCHANGED obj

\* ScaledPositionalEncoding.forward(x)
ScaledPEForward ==
    /\ obj.cls = "ScaledPositionalEncoding"
    /\ \E T \in 0..MaxLen, dtype \in Dtypes, device \in Devices, v \in Vals :
         LET r == ScaledPositionalEncoding_forward(pe, Full(T, obj.d_model, v, dtype, device), obj)
         IN  /\ pe' = r.pe
             /\ prev' = pe
             /\ call' = Called("forward", T, dtype, device, NoneMask, <<>>, r)
    /\ UNCHANGED obj

\* Conv2dSubsampling.forward(x, x_mask)
ConvForward ==
    /\ obj.cls = "Conv2dSubsampling"
    /\ \E i \in LayerInputs(MaxT) :
         LET r == Conv2dSubsampling_forward(pe, i.T, obj.idim, i.dtype, i.device, i.v,
                                            i.mask, obj)
         IN  /\ pe' = r.pe
             /\ prev' = pe
             /\ call' = Called("forward", i.T, i.dtype, i.device, i.mask, <<>>, r)
    /\ UNCHANGED obj

\* Input_layer.forward(inputs, mask) / Input_layer2.forward(inputs, mask)
LayerForward ==
    /\ obj.cls \in LayerClasses
    /\ \E i \in LayerInputs(IF obj.layer_type = "linear" THEN MaxLen ELSE MaxT) :
         LET c == Core(pe, i.T, obj.idim, i.dtype, i.device, i.v, i.mask, obj)
             r == Input_layer_forward(c)
         IN  /\ pe' = r.pe
             /\ prev' = pe
             /\ call' = Called("forward", i.T, i.dtype, i.device, i.mask, c.net, r)
    /\ UNCHANGED obj

Next == ExtendPe \/ PEForward \/ ScaledPEForward \/ ConvForward \/ LayerForward

Spec == Init /\ [][Next]_vars

\* =========================================================== properties
\* The last call ran extend_pe on a positional encoder, for an x of
\* call.len time steps in call.dtype on call.device, starting from prev.
Requested == obj.cls \in PeClasses /\ call.op # "__init__"

\* The request found capacity, dtype and device as cached (a pure cache hit).
CacheHit ==
    /\ Requested
    /\ ~prev.none
    /\ prev.cap >= call.len
    /\ prev.dtype = call.dtype
    /\ prev.device = call.device

\* The table a fresh build for n positions yields in the given dtype/device.
Fresh(n, dtype, device) ==
    Table(n, To(BuildTable(n, obj.d_model), dtype), dtype, device)

\* C1: a call of extend_pe whose length is within the cached capacity and
\* whose dtype and device are the cached ones leaves the cached table as it
\* was: same capacity, same dtype and device, same row values.
C1_CacheHitIsNoOp == CacheHit => pe = prev

\* C1 witness: a hit for fewer rows than are cached, on a non-empty table.
C1_Witness == CacheHit /\ call.len < prev.cap /\ call.len > 0

\* C2 as stated: every request that is not a pure cache hit (longer than
\* the capacity, or another dtype/device whatever the capacity) leaves a
\* freshly built table of exactly call.len rows in the requested
\* dtype/device.
C2_EveryMissRebuilds ==
    (Requested /\ ~CacheHit) => pe = Fresh(call.len, call.dtype, call.device)

\* C3 as stated: when extend_pe is called for a length L2 right after it was
\* called for a length L1 < L2 with the same dtype and device, rows
\* 0..L1-1 of the resulting table equal rows 0..L1-1 of the table cached
\* before the second call.
C3_MonotonicGrowth ==
    [][(/\ obj.cls \in PeClasses
        /\ call.op # "__init__"
        /\ call'.len > call.len
        /\ call'.dtype = call.dtype
        /\ call'.device = call.device)
       => \A p \in 1..call.len : pe'.rows[p] = pe.rows[p]]_vars

\* The time lengths the subsampler is specified for, and the output time
\* length floor((floor((T-3)/2)+1-3)/2)+1 specified for them.
TestLens == {1, 4, 5, 8, 9, 20}
SpecTimeLen(T) == (((T - 3) \div 2 + 1 - 3) \div 2) + 1
\* The last call was Conv2dSubsampling.forward on an input in the parameters'
\* dtype and device whose feature width both stages accept.
ConvCall ==
    /\ obj.cls = "Conv2dSubsampling"
    /\ call.op = "forward"
    /\ call.dtype = ParamDtype /\ call.device = ParamDevice
    /\ ConvOut(ConvOut(obj.idim)) >= 1
\* It returned features of the specified time length and a mask of as many.
ConvReturned ==
    /\ call.err = ""
    /\ Len(call.net) = SpecTimeLen(call.len)
    /\ ~call.mask.none
    /\ Len(call.mask.bits) = Len(call.net)

\* C4 as stated: for T in {1,4,5,8,9,20} and a feature width that both
\* stages accept, Conv2dSubsampling.forward with a mask of length T returns
\* features of floor((floor((T-3)/2)+1-3)/2)+1 time steps and a mask of as
\* many.
C4_AllTestLensReturn ==
    (ConvCall /\ ~call.maskNone /\ call.len \in TestLens) => ConvReturned

\* C4 amended: for T in {8,9,20} the forward returns features of
\* floor((floor((T-3)/2)+1-3)/2)+1 time steps and a mask of as many; for T in
\* {1,4,5} a convolution stage is given fewer than 3 frames, the forward
\* raises, and nothing is returned or changed.
C4_LongLensReturnShortRaise ==
    (ConvCall /\ ~call.maskNone /\ call.len \in TestLens) =>
        IF call.len \in {8, 9, 20} THEN ConvReturned
        ELSE call.err = "RuntimeError" /\ call.net = <<>> /\ pe = prev

\* C4 witness: T = 20 returned 4 time steps and a mask of length 4.
C4_Witness ==
    /\ ConvCall /\ ~call.maskNone /\ call.len = 20
    /\ call.err = "" /\ Len(call.net) = 4 /\ Len(call.mask.bits) = 4

\* C5: whenever Input_layer.forward or Input_layer2.forward returns, the
\* returned mask is aligned with the returned features, every position whose
\* mask value is false holds an all-zero vector, and every position whose
\* mask value is true holds the vector the core produced.
C5_MaskedRowsZeroOthersKept ==
    (obj.cls \in LayerClasses /\ call.op = "forward" /\ call.err = "") =>
        /\ ~call.mask.none
        /\ Len(call.mask.bits) = Len(call.net)
        /\ Len(call.core) = Len(call.net)
        /\ \A t \in 1..Len(call.net) :
              IF call.mask.bits[t] THEN call.net[t] = call.core[t]
              ELSE \A j \in 1..Len(call.net[t]) : call.net[t][j] = 0

\* C5 witness: the convolutional path returned several positions, one valid
\* and kept, one masked whose core vector was not zero.
C5_Witness ==
    /\ obj.cls \in LayerClasses /\ obj.layer_type = "conv"
    /\ call.op = "forward" /\ call.err = ""
    /\ \E t, u \in 1..Len(call.net) :
          /\ call.mask.bits[t] /\ ~call.mask.bits[u]
          /\ \E j \in 1..Len(call.core[u]) : call.core[u][j] # 0
          /\ \E j \in 1..Len(call.net[t]) : call.net[t][j] # 0

\* C6: a forward of a layer constructed with layer_type 'linear' that is
\* given no mask never returns; given an otherwise acceptable input it
\* raises at the masking step (AttributeError on None).
C6_NullMaskLinearRaises ==
    (obj.cls \in LayerClasses /\ obj.layer_type = "linear"
     /\ call.op = "forward" /\ call.maskNone) =>
        /\ call.err # ""
        /\ (call.dtype = ParamDtype /\ call.device = ParamDevice)
              => call.err = "AttributeError"

\* C6 witness: a linear-path forward of an acceptable input without mask
\* raised AttributeError.
C6_Witness ==
    /\ obj.cls \in LayerClasses /\ obj.layer_type = "linear"
    /\ call.op = "forward" /\ call.maskNone /\ call.len > 0
    /\ call.dtype = ParamDtype /\ call.device = ParamDevice
    /\ call.err = "AttributeError"

\* An input the convolutional path accepts: parameters' dtype and device,
\* at least one output frame along time and along frequency.
ConvAccepts ==
    /\ call.op = "forward"
    /\ call.dtype = ParamDtype /\ call.device = ParamDevice
    /\ ConvOut(ConvOut(obj.idim)) >= 1
    /\ ConvOut(ConvOut(call.len)) >= 1

\* C7 as stated: without a mask, Conv2dSubsampling.forward returns
\* (features, None), and so does the forward of an Input_layer or
\* Input_layer2 constructed with a layer_type other than 'linear'.
C7_NullMaskAcceptedOnConvPath ==
    (/\ obj.cls \in {"Conv2dSubsampling"} \cup LayerClasses
     /\ obj.layer_type # "linear"
     /\ ConvAccepts
     /\ call.maskNone) => (call.err = "" /\ call.mask.none)

\* C8 as stated: every row of the cached table holds the sinusoid values:
\* column 2i is sin(p * w_i), column 2i+1 is cos(p * w_i), as computed by a
\* build and stored in the table's dtype.
C8_TableHoldsSinusoids ==
    obj.cls \in PeClasses =>
        \A p \in 1..Len(pe.rows) : \A j \in 1..obj.d_model :
            pe.rows[p][j] = Cast(PeEntry(p - 1, j - 1, obj.d_model), pe.dtype)

\* C9: when both convolution stages accept the input width idim, the width
\* of the flattened per-frame vector, odim * (frequency length after two
\* kernel-3 stride-2 stages), is the in_features the constructor gave the
\* projection, and a forward of an accepted input does not raise.
C9_FlattenedWidthIsInFeatures ==
    (obj.layer_type = "conv" /\ ConvOut(ConvOut(obj.idim)) >= 1) =>
        /\ obj.d_model * ((((obj.idim - 3) \div 2 + 1 - 3) \div 2) + 1) = obj.in_features
        /\ (obj.cls = "Conv2dSubsampling" /\ ConvAccepts) => call.err = ""

\* C9 witness: an even input width that leaves more than one frequency bin,
\* and a forward that returned.
C9_Witness ==
    /\ obj.cls = "Conv2dSubsampling" /\ obj.idim % 2 = 0
    /\ obj.in_features > obj.d_model
    /\ ConvAccepts /\ call.err = "" /\ Len(call.net) > 1

\* C10: the cached table is never absent, no call lowers its capacity, and
\* when a positional encoder's forward slices the table, the table has at
\* least as many rows as the input has time steps and the input's dtype and
\* device, so the forward returns.
C10_TablePresentGrowsAndCoversInput ==
    /\ ~pe.none
    /\ call.op # "__init__" => pe.cap >= prev.cap
    /\ (obj.cls \in PeClasses /\ call.op = "forward") =>
          /\ pe.cap >= call.len
          /\ pe.dtype = call.dtype
          /\ pe.device = call.device
          /\ call.err = ""
          /\ Len(call.net) = call.len

\* C10 witness: a forward of an input longer than the cached table, in
\* another dtype and on another device.
C10_Witness ==
    /\ obj.cls \in PeClasses /\ call.op = "forward"
    /\ call.len > prev.cap
    /\ call.dtype # prev.dtype /\ call.device # prev.device
    /\ call.err = ""
====
